---- MODULE Spec2Model ----
(***************************************************************************)
(* Model of node/src/types/chainspec/accounts_config.rs: the genesis       *)
(* accounts configuration (AccountConfig, DelegatorConfig, AccountsConfig),*)
(* its bytesrepr encoding (ToBytes / FromBytes), its loader                *)
(* (Loadable::from_path) and its conversion into Vec<GenesisAccount>.      *)
(*                                                                         *)
(* The primitive codecs (PublicKey, Motes, u32, Vec<T>, allocate_buffer),  *)
(* utils::read_file, ChainspecAccountsLoadError, GenesisAccount and        *)
(* to_account_hash live in other crates and modules of the repository;     *)
(* they are modelled from the specification's composition rules.           *)
(***************************************************************************)
EXTENDS Integers, Sequences, FiniteSets, TLC

(***************************************************************************)
(* State.  One value is held at a time: it is constructed (new,            *)
(* from_path), used and dropped.                                           *)
(*   value      the entity held in memory (tagged with its type), or None  *)
(*   origin     how value was constructed: new, from_bytes or from_path    *)
(*   stream     the byte stream handed to from_bytes                       *)
(*   sent       the value whose encoding the stream starts with            *)
(*   suffix     the foreign bytes that follow the encoding in the stream   *)
(*   cut        how many bytes of the encoding the stream has lost         *)
(*   result     the last operation and what it returned                    *)
(*   allocator  whether allocate_buffer grants or refuses a buffer; it is  *)
(*              decided outside this module and fixed for a run            *)
(***************************************************************************)
VARIABLES value, origin, stream, sent, suffix, cut, result, allocator

(***************************************************************************)
(* Bounds of the model.                                                    *)
(***************************************************************************)
\* Width in bytes of the opaque fixed-size public key value.
KeyWidth == 2
\* Width in bytes of the fixed-point amount (Motes).
AmountWidth == 2
\* Longest accounts sequence of a constructed AccountsConfig.
MaxAccounts == 2
\* Longest delegators sequence of a constructed AccountsConfig.
MaxDelegators == 1
\* Most bytes of foreign data that follow an encoding in the stream.
MaxSuffix == 2

\* Width in bytes of the sequence length prefix (an unsigned 32-bit integer).
U32_SERIALIZED_LENGTH == 4

CHAINSPEC_ACCOUNTS_FILENAME == "accounts.toml"

Byte == 0..255

(***************************************************************************)
(* Result<T, E>: Ok carries the value (and, for a decode, the unconsumed   *)
(* remainder); Err carries the error kind.                                 *)
(***************************************************************************)
Ok(v) == [ok |-> TRUE, value |-> v]
OkRem(v, rem) == [ok |-> TRUE, value |-> v, remainder |-> rem]
Err(e) == [ok |-> FALSE, err |-> e]

\* The `?` operator: an Err is returned to the caller at once, an Ok is
\* handed to the rest of the function.
Try(r, Rest(_)) == IF r.ok THEN Rest(r) ELSE r

(***************************************************************************)
(* Primitive codecs.                                                       *)
(***************************************************************************)
RECURSIVE Pow256(_)
Pow256(i) == IF i = 0 THEN 1 ELSE 256 * Pow256(i - 1)

\* The fixed-width little-endian representation of n in w bytes.
FixedWidth(n, w) == [i \in 1..w |-> (n \div Pow256(i - 1)) % 256]

RECURSIVE FromFixedWidth(_)
FromFixedWidth(bs) ==
  IF bs = <<>> THEN 0 ELSE Head(bs) + 256 * FromFixedWidth(Tail(bs))

\* bytesrepr::safe_split_at: the first n bytes and the rest, or an error
\* when fewer than n bytes are left.
safe_split_at(bytes, n) ==
  IF n > Len(bytes)
  THEN Err("EarlyEndOfStream")
  ELSE OkRem(SubSeq(bytes, 1, n), SubSeq(bytes, n + 1, Len(bytes)))

\* bytesrepr::Error, the error type of both to_bytes and from_bytes.
bytesrepr_Error == {"EarlyEndOfStream", "Formatting", "LeftOverBytes", "OutOfMemory"}

\* bytesrepr::allocate_buffer: an empty buffer with the declared capacity,
\* or the error the `?` of to_bytes forwards when the buffer is refused.
allocate_buffer(serialized_length) ==
  IF allocator = "refuses" THEN Err("OutOfMemory") ELSE Ok(<<>>)

PublicKey_serialized_length(pk) == KeyWidth
PublicKey_to_bytes(pk) == Ok(pk.key)
PublicKey_from_bytes(bytes) ==
  Try(safe_split_at(bytes, KeyWidth), LAMBDA s :
    OkRem([key |-> s.value], s.remainder))

Motes_is_zero(m) == m = 0
Motes_serialized_length(m) == AmountWidth
Motes_to_bytes(m) == Ok(FixedWidth(m, AmountWidth))
Motes_from_bytes(bytes) ==
  Try(safe_split_at(bytes, AmountWidth), LAMBDA s :
    OkRem(FromFixedWidth(s.value), s.remainder))

u32_to_bytes(n) == Ok(FixedWidth(n, U32_SERIALIZED_LENGTH))
u32_from_bytes(bytes) ==
  Try(safe_split_at(bytes, U32_SERIALIZED_LENGTH), LAMBDA s :
    OkRem(FromFixedWidth(s.value), s.remainder))

(***************************************************************************)
(* AccountConfig.                                                          *)
(***************************************************************************)
AccountConfig_new(public_key, balance, bonded_amount) ==
  [public_key |-> public_key, balance |-> balance,
   bonded_amount |-> bonded_amount]

\* Mutant: the flag follows the balance.
is_genesis_validator_by_balance(self) == ~Motes_is_zero(self.balance)

is_genesis_validator(self) == ~Motes_is_zero(self.bonded_amount)

AccountConfig_serialized_length(self) ==
  PublicKey_serialized_length(self.public_key)
    + Motes_serialized_length(self.balance)
    + Motes_serialized_length(self.bonded_amount)

AccountConfig_to_bytes(self) ==
  Try(allocate_buffer(AccountConfig_serialized_length(self)), LAMBDA buffer :
  Try(PublicKey_to_bytes(self.public_key), LAMBDA public_key :
  Try(Motes_to_bytes(self.balance), LAMBDA balance :
  Try(Motes_to_bytes(self.bonded_amount), LAMBDA bonded_amount :
    Ok(buffer.value \o public_key.value \o balance.value
         \o bonded_amount.value)))))

\* Mutant: the two amounts are assembled into each other's field.
AccountConfig_from_bytes_swapped_amounts(bytes) ==
  Try(PublicKey_from_bytes(bytes), LAMBDA public_key :
  Try(Motes_from_bytes(public_key.remainder), LAMBDA balance :
  Try(Motes_from_bytes(balance.remainder), LAMBDA bonded_amount :
    OkRem([public_key |-> public_key.value, balance |-> bonded_amount.value,
           bonded_amount |-> balance.value],
          bonded_amount.remainder))))

\* Mutant: a missing bonded amount is taken to be zero.
AccountConfig_from_bytes_lenient(bytes) ==
  Try(PublicKey_from_bytes(bytes), LAMBDA public_key :
  Try(Motes_from_bytes(public_key.remainder), LAMBDA balance :
    LET bonded_amount == Motes_from_bytes(balance.remainder) IN
    IF bonded_amount.ok
    THEN OkRem([public_key |-> public_key.value, balance |-> balance.value,
                bonded_amount |-> bonded_amount.value],
               bonded_amount.remainder)
    ELSE OkRem([public_key |-> public_key.value, balance |-> balance.value,
                bonded_amount |-> 0], <<>>)))

AccountConfig_from_bytes(bytes) ==
  Try(PublicKey_from_bytes(bytes), LAMBDA public_key :
  Try(Motes_from_bytes(public_key.remainder), LAMBDA balance :
  Try(Motes_from_bytes(balance.remainder), LAMBDA bonded_amount :
    OkRem([public_key |-> public_key.value, balance |-> balance.value,
           bonded_amount |-> bonded_amount.value],
          bonded_amount.remainder))))


(***************************************************************************)
(* DelegatorConfig.                                                        *)
(***************************************************************************)
DelegatorConfig_new(validator_public_key, delegator_public_key, balance, delegated_amount) ==
  [validator_public_key |-> validator_public_key,
   delegator_public_key |-> delegator_public_key,
   balance |-> balance, delegated_amount |-> delegated_amount]

\* Mutant: one of the two keys is left out of the declared length.
DelegatorConfig_serialized_length_one_key(self) ==
  PublicKey_serialized_length(self.validator_public_key)
    + Motes_serialized_length(self.balance)
    + Motes_serialized_length(self.delegated_amount)

DelegatorConfig_serialized_length(self) ==
  PublicKey_serialized_length(self.validator_public_key)
    + PublicKey_serialized_length(self.delegator_public_key)
    + Motes_serialized_length(self.balance)
    + Motes_serialized_length(self.delegated_amount)

\* Mutant: the delegator's key is written before the validator's.
DelegatorConfig_to_bytes_keys_swapped(self) ==
  Try(allocate_buffer(DelegatorConfig_serialized_length(self)), LAMBDA buffer :
  Try(PublicKey_to_bytes(self.delegator_public_key), LAMBDA delegator_public_key :
  Try(PublicKey_to_bytes(self.validator_public_key), LAMBDA validator_public_key :
  Try(Motes_to_bytes(self.balance), LAMBDA balance :
  Try(Motes_to_bytes(self.delegated_amount), LAMBDA delegated_amount :
    Ok(buffer.value \o delegator_public_key.value
         \o validator_public_key.value \o balance.value
         \o delegated_amount.value))))))

DelegatorConfig_to_bytes(self) ==
  Try(allocate_buffer(DelegatorConfig_serialized_length(self)), LAMBDA buffer :
  Try(PublicKey_to_bytes(self.validator_public_key), LAMBDA validator_public_key :
  Try(PublicKey_to_bytes(self.delegator_public_key), LAMBDA delegator_public_key :
  Try(Motes_to_bytes(self.balance), LAMBDA balance :
  Try(Motes_to_bytes(self.delegated_amount), LAMBDA delegated_amount :
    Ok(buffer.value \o validator_public_key.value
         \o delegator_public_key.value \o balance.value
         \o delegated_amount.value))))))

DelegatorConfig_from_bytes(bytes) ==
  Try(PublicKey_from_bytes(bytes), LAMBDA validator_public_key :
  Try(PublicKey_from_bytes(validator_public_key.remainder), LAMBDA delegator_public_key :
  Try(Motes_from_bytes(delegator_public_key.remainder), LAMBDA balance :
  Try(Motes_from_bytes(balance.remainder), LAMBDA delegated_amount :
    OkRem([validator_public_key |-> validator_public_key.value,
           delegator_public_key |-> delegator_public_key.value,
           balance |-> balance.value,
           delegated_amount |-> delegated_amount.value],
          delegated_amount.remainder)))))

(***************************************************************************)
(* Vec<T>: a length prefix, then the elements in sequence order.  T names  *)
(* the element type; T_* dispatch to the element type's implementation.    *)
(***************************************************************************)
T_serialized_length(T, item) ==
  IF T = "AccountConfig" THEN AccountConfig_serialized_length(item)
  ELSE DelegatorConfig_serialized_length(item)

T_to_bytes(T, item) ==
  IF T = "AccountConfig" THEN AccountConfig_to_bytes(item)
  ELSE DelegatorConfig_to_bytes(item)

T_from_bytes(T, bytes) ==
  IF T = "AccountConfig" THEN AccountConfig_from_bytes(bytes)
  ELSE DelegatorConfig_from_bytes(bytes)

Vec_serialized_length(self, T) ==
  LET sum[i \in 0..Len(self)] ==
        IF i = 0 THEN U32_SERIALIZED_LENGTH
        ELSE sum[i - 1] + T_serialized_length(T, self[i])
  IN  sum[Len(self)]

Vec_to_bytes(self, T) ==
  LET written[i \in 0..Len(self)] ==
        IF i = 0 THEN u32_to_bytes(Len(self))
        ELSE Try(written[i - 1], LAMBDA prev :
             Try(T_to_bytes(T, self[i]), LAMBDA item :
               Ok(prev.value \o item.value)))
  IN  written[Len(self)]

Vec_from_bytes(bytes, T) ==
  Try(u32_from_bytes(bytes), LAMBDA count :
    LET loop[i \in 0..count.value] ==
          IF i = 0 THEN OkRem(<<>>, count.remainder)
          ELSE Try(loop[i - 1], LAMBDA prev :
               Try(T_from_bytes(T, prev.remainder), LAMBDA item :
                 OkRem(Append(prev.value, item.value), item.remainder)))
    IN  loop[count.value])

(***************************************************************************)
(* AccountsConfig.                                                         *)
(***************************************************************************)
AccountsConfig_new(accounts, delegators) ==
  [accounts |-> accounts, delegators |-> delegators]

AccountsConfig_serialized_length(self) ==
  Vec_serialized_length(self.accounts, "AccountConfig")
    + Vec_serialized_length(self.delegators, "DelegatorConfig")

AccountsConfig_to_bytes(self) ==
  Try(allocate_buffer(AccountsConfig_serialized_length(self)), LAMBDA buffer :
  Try(Vec_to_bytes(self.accounts, "AccountConfig"), LAMBDA accounts :
  Try(Vec_to_bytes(self.delegators, "DelegatorConfig"), LAMBDA delegators :
    Ok(buffer.value \o accounts.value \o delegators.value))))

\* Mutant: the remainder returned is the one left after the accounts.
AccountsConfig_from_bytes_stale_remainder(bytes) ==
  Try(Vec_from_bytes(bytes, "AccountConfig"), LAMBDA accounts :
  Try(Vec_from_bytes(accounts.remainder, "DelegatorConfig"), LAMBDA delegators :
    OkRem(AccountsConfig_new(accounts.value, delegators.value),
          accounts.remainder)))

AccountsConfig_from_bytes(bytes) ==
  Try(Vec_from_bytes(bytes, "AccountConfig"), LAMBDA accounts :
  Try(Vec_from_bytes(accounts.remainder, "DelegatorConfig"), LAMBDA delegators :
    OkRem(AccountsConfig_new(accounts.value, delegators.value),
          delegators.remainder)))

(***************************************************************************)
(* Loadable::from_path.  The directory root is described by the state of   *)
(* <root>/accounts.toml:                                                   *)
(*   absent        nothing exists at the path                              *)
(*   inaccessible  an entry exists but its metadata cannot be queried      *)
(*                 (permission error on the way, broken symbolic link)     *)
(*   directory     an entry exists and is not a regular file               *)
(*   unreadable    a regular file whose content cannot be read             *)
(*   malformed     a regular file whose content is not the schema          *)
(*   document      a regular file holding a table document                 *)
(***************************************************************************)
Some(v) == [some |-> TRUE, v |-> v]
Absent == [some |-> FALSE]

\* Path::is_file: TRUE only when the metadata can be read and say
\* "regular file"; every failure to query them answers FALSE.
is_file(file) == file.kind \in {"unreadable", "malformed", "document"}

\* utils::read_file
read_file(file) ==
  IF file.kind = "unreadable" THEN Err("ReadFileError") ELSE Ok(file)

\* toml::from_slice into AccountsConfig: `accounts` is required,
\* `delegators` is #[serde(default)].
toml_from_slice(bytes) ==
  IF bytes.kind # "document" THEN Err("toml::de::Error")
  ELSE IF ~bytes.accounts.some THEN Err("toml::de::Error")
  ELSE Ok([accounts |-> bytes.accounts.v,
           delegators |-> IF bytes.delegators.some
                          THEN bytes.delegators.v ELSE <<>>])

\* From<ReadFileError> / From<toml::de::Error> for
\* ChainspecAccountsLoadError, applied by the `?` operator.
ChainspecAccountsLoadError_from(e) ==
  IF e = "ReadFileError" THEN "SourceUnreadable" ELSE "SourceMalformed"

\* Mutant: a missing accounts file is an error.
from_path_strict(file) ==
  LET bytes == read_file(file) IN
  IF file.kind \in {"absent", "inaccessible", "directory"} \/ ~bytes.ok
  THEN [res |-> Err(ChainspecAccountsLoadError_from("ReadFileError")),
        io |-> <<"read_file">>]
  ELSE
  LET toml_chainspec == toml_from_slice(bytes.value) IN
  IF ~toml_chainspec.ok
  THEN [res |-> Err(ChainspecAccountsLoadError_from(toml_chainspec.err)),
        io |-> <<"read_file", "from_slice">>]
  ELSE [res |-> Ok(toml_chainspec.value),
        io |-> <<"read_file", "from_slice">>]

\* The result of from_path and the external calls it made, in order.
from_path(file) ==
  IF ~is_file(file)
  THEN [res |-> Ok(AccountsConfig_new(<<>>, <<>>)), io |-> <<"is_file">>]
  ELSE
  LET bytes == read_file(file) IN
  IF ~bytes.ok
  THEN [res |-> Err(ChainspecAccountsLoadError_from(bytes.err)),
        io |-> <<"is_file", "read_file">>]
  ELSE
  LET toml_chainspec == toml_from_slice(bytes.value) IN
  IF ~toml_chainspec.ok
  THEN [res |-> Err(ChainspecAccountsLoadError_from(toml_chainspec.err)),
        io |-> <<"is_file", "read_file", "from_slice">>]
  ELSE [res |-> Ok(toml_chainspec.value),
        io |-> <<"is_file", "read_file", "from_slice">>]

(***************************************************************************)
(* From<AccountsConfig> for Vec<GenesisAccount>.                           *)
(***************************************************************************)
RECURSIVE SumBytes(_)
SumBytes(bs) == IF bs = <<>> THEN 0 ELSE Head(bs) + 31 * SumBytes(Tail(bs))

\* PublicKey::to_account_hash: a digest of the key's bytes.
to_account_hash(public_key) == [hash |-> (SumBytes(public_key.key) + 7) % 251]

GenesisAccount_new(public_key, account_hash, balance, bonded_amount) ==
  [public_key |-> public_key, account_hash |-> account_hash,
   balance |-> balance, bonded_amount |-> bonded_amount]

\* Mutant: the balance and the bonded amount are passed in each other's place.
From_AccountsConfig_swapped_amounts(accounts_config) ==
  LET accounts == accounts_config.accounts
      genesis_accounts[i \in 0..Len(accounts)] ==
        IF i = 0 THEN <<>>
        ELSE LET account == accounts[i] IN
             Append(genesis_accounts[i - 1],
                    GenesisAccount_new(account.public_key,
                                       to_account_hash(account.public_key),
                                       account.bonded_amount,
                                       account.balance))
  IN  genesis_accounts[Len(accounts)]

From_AccountsConfig(accounts_config) ==
  LET accounts == accounts_config.accounts
      genesis_accounts[i \in 0..Len(accounts)] ==
        IF i = 0 THEN <<>>
        ELSE LET account == accounts[i] IN
             Append(genesis_accounts[i - 1],
                    GenesisAccount_new(account.public_key,
                                       to_account_hash(account.public_key),
                                       account.balance,
                                       account.bonded_amount))
  IN  genesis_accounts[Len(accounts)]

(***************************************************************************)
(* The values the operations are applied to.                               *)
(***************************************************************************)
PublicKeys == {[key |-> [i \in 1..KeyWidth |-> (s * i) % 128]] : s \in {3, 50}}

Amounts == {0, 1, 258}

AccountConfigs ==
  {AccountConfig_new(pk, b, s) : pk \in PublicKeys, b \in Amounts, s \in Amounts}

DelegatorConfigs ==
  {DelegatorConfig_new(v, d, b, s) :
     v \in PublicKeys, d \in PublicKeys, b \in Amounts, s \in Amounts}

\* The elements the sequences of an AccountsConfig are built from.
AccountPool ==
  {a \in AccountConfigs :
     \/ a.public_key.key[1] = 3 /\ a.balance = 258 /\ a.bonded_amount = 0
     \/ a.public_key.key[1] = 3 /\ a.balance = 1 /\ a.bonded_amount = 258
     \/ a.public_key.key[1] = 50 /\ a.balance = 0 /\ a.bonded_amount = 1}

DelegatorPool ==
  {d \in DelegatorConfigs :
     /\ d.validator_public_key.key[1] = 3
     /\ \/ d.delegator_public_key.key[1] = 50 /\ d.balance = 1
           /\ d.delegated_amount = 258
        \/ d.delegator_public_key.key[1] = 3 /\ d.balance = 258
           /\ d.delegated_amount = 0}

SeqsUpTo(S, n) == UNION {[1..k -> S] : k \in 0..n}

AccountSeqs == SeqsUpTo(AccountPool, MaxAccounts)
DelegatorSeqs == SeqsUpTo(DelegatorPool, MaxDelegators)

\* The bytes of other data that may follow an encoding in a stream.
SuffixBytes == {0, 77}

\* The states <root>/accounts.toml can be in.
Files ==
  {[kind |-> k] : k \in {"absent", "inaccessible", "directory",
                         "unreadable", "malformed"}}
  \cup {[kind |-> "document", accounts |-> Some(a), delegators |-> Some(d)] :
          a \in AccountSeqs, d \in DelegatorSeqs}
  \cup {[kind |-> "document", accounts |-> Some(a), delegators |-> Absent] :
          a \in AccountSeqs}
  \cup {[kind |-> "document", accounts |-> Absent, delegators |-> Some(d)] :
          d \in DelegatorSeqs}

(***************************************************************************)
(* Trait dispatch on the type of a tagged value.                           *)
(***************************************************************************)
None == [ty |-> "None"]
Tagged(ty, v) == [ty |-> ty, v |-> v]

to_bytes(val) ==
  IF val.ty = "AccountConfig" THEN AccountConfig_to_bytes(val.v)
  ELSE IF val.ty = "DelegatorConfig" THEN DelegatorConfig_to_bytes(val.v)
  ELSE AccountsConfig_to_bytes(val.v)

serialized_length(val) ==
  IF val.ty = "AccountConfig" THEN AccountConfig_serialized_length(val.v)
  ELSE IF val.ty = "DelegatorConfig"
       THEN DelegatorConfig_serialized_length(val.v)
  ELSE AccountsConfig_serialized_length(val.v)

from_bytes(ty, bytes) ==
  IF ty = "AccountConfig" THEN AccountConfig_from_bytes(bytes)
  ELSE IF ty = "DelegatorConfig" THEN DelegatorConfig_from_bytes(bytes)
  ELSE AccountsConfig_from_bytes(bytes)

vars == <<value, origin, stream, sent, suffix, cut, result, allocator>>

NoStream == stream' = <<>> /\ sent' = None /\ suffix' = <<>> /\ cut' = 0

Init ==
  /\ value = None
  /\ origin = "none"
  /\ stream = <<>>
  /\ sent = None
  /\ suffix = <<>>
  /\ cut = 0
  /\ result = [op |-> "none"]
  /\ allocator = "grants"

\* The initial states when the allocator may also refuse every buffer.
InitAlloc ==
  /\ value = None
  /\ origin = "none"
  /\ stream = <<>>
  /\ sent = None
  /\ suffix = <<>>
  /\ cut = 0
  /\ result = [op |-> "none"]
  /\ allocator \in {"grants", "refuses"}

\* AccountConfig::new
NewAccountConfig ==
  /\ value = None
  /\ \E pk \in PublicKeys, balance \in Amounts, bonded_amount \in Amounts :
       /\ value' = Tagged("AccountConfig", AccountConfig_new(pk, balance, bonded_amount))
       /\ origin' = "new"
       /\ result' = [op |-> "new"]
       /\ NoStream
       /\ UNCHANGED allocator

\* DelegatorConfig::new
NewDelegatorConfig ==
  /\ value = None
  /\ \E v \in PublicKeys, d \in PublicKeys, balance \in Amounts, delegated_amount \in Amounts :
       /\ value' = Tagged("DelegatorConfig", DelegatorConfig_new(v, d, balance, delegated_amount))
       /\ origin' = "new"
       /\ result' = [op |-> "new"]
       /\ NoStream
       /\ UNCHANGED allocator

\* AccountsConfig::new
NewAccountsConfig ==
  /\ value = None
  /\ \E accounts \in AccountSeqs, delegators \in DelegatorSeqs :
       /\ value' = Tagged("AccountsConfig", AccountsConfig_new(accounts, delegators))
       /\ origin' = "new"
       /\ result' = [op |-> "new"]
       /\ NoStream
       /\ UNCHANGED allocator

\* value.to_bytes(), with the length value.serialized_length() declares.
ToBytes ==
  /\ value # None
  /\ LET res == to_bytes(value) IN
     /\ result' = [op |-> "to_bytes", res |-> res,
                   declared |-> serialized_length(value)]
     /\ stream' = IF res.ok THEN res.value ELSE <<>>
     /\ sent' = IF res.ok THEN value ELSE None
  /\ suffix' = <<>>
  /\ cut' = 0
  /\ UNCHANGED <<value, origin, allocator>>

\* Other data follows the encoding in the stream.
Receive ==
  /\ result.op = "to_bytes"
  /\ sent # None
  /\ cut = 0
  /\ Len(suffix) < MaxSuffix
  /\ \E b \in SuffixBytes :
       /\ stream' = Append(stream, b)
       /\ suffix' = Append(suffix, b)
  /\ UNCHANGED <<value, origin, sent, cut, result, allocator>>

\* The stream loses its last byte.
Truncate ==
  /\ result.op = "to_bytes"
  /\ sent # None
  /\ suffix = <<>>
  /\ Len(stream) > 0
  /\ stream' = SubSeq(stream, 1, Len(stream) - 1)
  /\ cut' = cut + 1
  /\ UNCHANGED <<value, origin, sent, suffix, result, allocator>>

\* T::from_bytes(stream) for the type T of the value that was sent.
FromBytes ==
  /\ result.op = "to_bytes"
  /\ sent # None
  /\ LET res == from_bytes(sent.ty, stream) IN
     /\ result' = [op |-> "from_bytes", res |-> res]
     /\ value' = IF res.ok THEN Tagged(sent.ty, res.value) ELSE value
     /\ origin' = IF res.ok THEN "from_bytes" ELSE origin
  /\ UNCHANGED <<stream, sent, suffix, cut, allocator>>

\* AccountsConfig::from_path(root), for each state of the accounts file.
FromPath ==
  /\ value = None
  /\ \E file \in Files :
       LET loaded == from_path(file) IN
       /\ result' = [op |-> "from_path", file |-> file, res |-> loaded.res,
                     io |-> loaded.io]
       /\ value' = IF loaded.res.ok
                   THEN Tagged("AccountsConfig", loaded.res.value) ELSE value
       /\ origin' = IF loaded.res.ok THEN "from_path" ELSE origin
       /\ NoStream
       /\ UNCHANGED allocator

\* The value held goes out of scope, and the stream with it.
Drop ==
  /\ value # None
  /\ value' = None
  /\ origin' = "none"
  /\ result' = [op |-> "none"]
  /\ NoStream
  /\ UNCHANGED allocator

\* Vec::<GenesisAccount>::from(value): the configuration is consumed.
IntoGenesisAccounts ==
  /\ value.ty = "AccountsConfig"
  /\ result' = [op |-> "into", arg |-> value.v,
                out |-> From_AccountsConfig(value.v)]
  /\ value' = None
  /\ origin' = "none"
  /\ NoStream
  /\ UNCHANGED allocator

\* is_genesis_validator() of the account held, or of one of the accounts
\* of the configuration held.
IsGenesisValidator ==
  /\ \E account \in
        IF value.ty = "AccountConfig" THEN {value.v}
        ELSE IF value.ty = "AccountsConfig"
             THEN {value.v.accounts[i] : i \in 1..Len(value.v.accounts)}
        ELSE {} :
       result' = [op |-> "is_genesis_validator", account |-> account,
                  flag |-> is_genesis_validator(account)]
  /\ UNCHANGED <<value, origin, stream, sent, suffix, cut, allocator>>

Next ==
  \/ NewAccountConfig
  \/ NewDelegatorConfig
  \/ NewAccountsConfig
  \/ ToBytes
  \/ Receive
  \/ Truncate
  \/ FromBytes
  \/ FromPath
  \/ IntoGenesisAccounts
  \/ IsGenesisValidator
  \/ Drop

Spec == Init /\ [][Next]_vars

\* The same operations, in runs where the allocator may refuse.
SpecAlloc == InitAlloc /\ [][Next]_vars

(***************************************************************************)
(* The encoding the composition rules prescribe, written out field by      *)
(* field, against which the bytes to_bytes produces are compared.          *)
(***************************************************************************)
RECURSIVE Concat(_)
Concat(seqs) == IF seqs = <<>> THEN <<>> ELSE Head(seqs) \o Concat(Tail(seqs))

AccountLayout(a) ==
  Concat(<<a.public_key.key,
           FixedWidth(a.balance, AmountWidth),
           FixedWidth(a.bonded_amount, AmountWidth)>>)

DelegatorLayout(d) ==
  Concat(<<d.validator_public_key.key,
           d.delegator_public_key.key,
           FixedWidth(d.balance, AmountWidth),
           FixedWidth(d.delegated_amount, AmountWidth)>>)

AccountsLayout(c) ==
  Concat(<<FixedWidth(Len(c.accounts), U32_SERIALIZED_LENGTH),
           Concat([i \in 1..Len(c.accounts) |-> AccountLayout(c.accounts[i])]),
           FixedWidth(Len(c.delegators), U32_SERIALIZED_LENGTH),
           Concat([i \in 1..Len(c.delegators) |-> DelegatorLayout(c.delegators[i])])>>)

Layout(val) ==
  IF val.ty = "AccountConfig" THEN AccountLayout(val.v)
  ELSE IF val.ty = "DelegatorConfig" THEN DelegatorLayout(val.v)
  ELSE AccountsLayout(val.v)

(***************************************************************************)
(* Claims.                                                                 *)
(***************************************************************************)

\* C1 (round trip): every to_bytes succeeds, and decoding the untouched
\* encoding of a value returns exactly that value, sequences in their
\* original order, with an empty remainder.
C1_RoundTrip ==
  /\ result.op = "to_bytes" => result.res.ok
  /\ (result.op = "from_bytes" /\ cut = 0 /\ suffix = <<>>) =>
       /\ result.res.ok
       /\ result.res.value = sent.v
       /\ result.res.remainder = <<>>
       /\ value = sent

C1_Witness ==
  /\ result.op = "from_bytes" /\ cut = 0 /\ suffix = <<>>
  /\ result.res.ok
  /\ sent.ty = "AccountsConfig"
  /\ Len(sent.v.accounts) = 2
  /\ sent.v.accounts[1] = sent.v.accounts[2]
  /\ Len(sent.v.delegators) = 1

\* C2 (length consistency): the length serialized_length declares is the
\* number of bytes to_bytes produces.
C2_LengthConsistency ==
  result.op = "to_bytes" =>
    /\ result.res.ok
    /\ result.declared = Len(result.res.value)

C2_Witness ==
  /\ result.op = "to_bytes"
  /\ value.ty = "AccountsConfig"
  /\ Len(value.v.accounts) = 2
  /\ Len(value.v.delegators) = 1
  /\ result.declared = Len(result.res.value)

\* C3 (decode consumes only its own data): decoding an encoding followed
\* by any other bytes returns the value and exactly those bytes.
C3_RemainderIsSuffix ==
  (result.op = "from_bytes" /\ cut = 0) =>
    /\ result.res.ok
    /\ result.res.value = sent.v
    /\ result.res.remainder = suffix

C3_Witness ==
  /\ result.op = "from_bytes" /\ cut = 0
  /\ Len(suffix) = 2
  /\ sent.ty = "AccountsConfig"
  /\ Len(sent.v.accounts) = 2
  /\ Len(sent.v.delegators) = 1
  /\ result.res.ok
  /\ result.res.remainder = suffix

\* C4 (truncation): decoding an AccountConfig encoding that lost its last
\* k >= 1 bytes returns a decode error that carries no value, and the value
\* held is still the one that was encoded.
C4_TruncationFails ==
  (result.op = "from_bytes" /\ sent.ty = "AccountConfig" /\ cut >= 1) =>
    /\ ~result.res.ok
    /\ DOMAIN result.res = {"ok", "err"}
    /\ result.res.err = "EarlyEndOfStream"
    /\ value = sent

C4_Witness ==
  /\ result.op = "from_bytes"
  /\ sent.ty = "AccountConfig"
  /\ cut = 1
  /\ ~result.res.ok

\* C5 (genesis adapter): one record per account, in order, each with the
\* account's key, the hash of that key, its balance and its bonded amount;
\* the delegators do not change the output.
C5_GenesisAdapter ==
  result.op = "into" =>
    /\ Len(result.out) = Len(result.arg.accounts)
    /\ \A i \in 1..Len(result.arg.accounts) :
         /\ result.out[i].public_key = result.arg.accounts[i].public_key
         /\ result.out[i].account_hash =
              to_account_hash(result.arg.accounts[i].public_key)
         /\ result.out[i].balance = result.arg.accounts[i].balance
         /\ result.out[i].bonded_amount = result.arg.accounts[i].bonded_amount
    /\ result.out =
         From_AccountsConfig(AccountsConfig_new(result.arg.accounts, <<>>))

C5_Witness ==
  /\ result.op = "into"
  /\ Len(result.arg.accounts) = 2
  /\ result.arg.accounts[1] # result.arg.accounts[2]
  /\ Len(result.arg.delegators) = 1
  /\ Len(result.out) = 2

\* C6 (absent source): with no accounts file under the root, from_path
\* returns an AccountsConfig with no accounts and no delegators, and neither
\* reads nor parses.
C6_AbsentSourceDefault ==
  (result.op = "from_path" /\ result.file.kind = "absent") =>
    /\ result.res.ok
    /\ result.res.value.accounts = <<>>
    /\ result.res.value.delegators = <<>>
    /\ result.io = <<"is_file">>
    /\ value = Tagged("AccountsConfig", AccountsConfig_new(<<>>, <<>>))

C6_Witness ==
  /\ result.op = "from_path"
  /\ result.file.kind = "absent"
  /\ result.res.ok
  /\ origin = "from_path"

\* C7 (load failure propagation): an accounts file that exists and cannot
\* be read gives the source-unreadable error, one that does not parse gives
\* the source-malformed error, and the default configuration (returned
\* without reading) is returned only when the file is absent.
C7_LoadFailurePropagation ==
  result.op = "from_path" =>
    /\ result.file.kind \in {"inaccessible", "directory", "unreadable"} =>
         (~result.res.ok /\ result.res.err = "SourceUnreadable")
    /\ (\/ result.file.kind = "malformed"
        \/ (result.file.kind = "document" /\ ~result.file.accounts.some)) =>
         (~result.res.ok /\ result.res.err = "SourceMalformed")
    /\ (result.res.ok /\ result.io = <<"is_file">>) =>
         result.file.kind = "absent"

C9_ValidatorFlag ==
  result.op = "is_genesis_validator" =>
    (result.flag <=> result.account.bonded_amount # 0)

C9_Witness ==
  /\ result.op = "is_genesis_validator"
  /\ origin = "from_bytes"
  /\ result.flag
  /\ result.account.balance = 0

\* C10 (canonical layout): the bytes to_bytes produces are the accounts
\* sequence then the delegators sequence, each a length prefix and its
\* elements in order, each element its fields in declared order; and what
\* from_bytes returns is what the stream holds at those positions.
C10_CanonicalLayout ==
  /\ (result.op = "to_bytes" /\ result.res.ok) =>
       result.res.value = Layout(value)
  /\ (result.op = "from_bytes" /\ result.res.ok) =>
       stream = Layout(value) \o result.res.remainder

C10_Witness ==
  /\ result.op = "from_bytes"
  /\ result.res.ok
  /\ value.ty = "AccountsConfig"
  /\ Len(value.v.accounts) = 2
  /\ Len(value.v.delegators) = 1
  /\ value.v.delegators[1].validator_public_key
       # value.v.delegators[1].delegator_public_key
====
